---- MODULE Spec2Model ----
(***************************************************************************)
(* Model of the two utility scripts of jobbot3000:                         *)
(*   scripts/scan-secrets.py       main(): the stdin secret scanner        *)
(*   scripts/flash_and_report.py   _describe_device(): device metadata     *)
(* Text is a sequence of character codes (ASCII), so that the character    *)
(* classes of the regular expressions, lower-casing and quote stripping    *)
(* are computed, not assumed.  Python values of the device helper are      *)
(* tagged records, so that None, False, numbers, strings and lists are     *)
(* distinct values.                                                        *)
(***************************************************************************)
EXTENDS Integers, Sequences, FiniteSets

VARIABLES pc, data, p, pos, match, findings, origins, stdout, exit_status,
          devices, path, idx, info

scan_vars == <<data, p, pos, match, findings, origins, stdout, exit_status>>
dev_vars == <<devices, path, idx, info>>
vars == <<pc, data, p, pos, match, findings, origins, stdout, exit_status,
          devices, path, idx, info>>

Min(S) == CHOOSE x \in S : \A y \in S : x <= y
Max(S) == CHOOSE x \in S : \A y \in S : x >= y

(***************************************************************************)
(* scripts/scan-secrets.py                                                 *)
(***************************************************************************)

\* Bound: an input blob is the concatenation of at most MaxItems fragments.
MaxItems == 3

\* The repetition count of r'AKIA[0-9A-Z]{16}'.
KeyTailLen == 16

\* "AKIA", the literal prefix of the first pattern.
AKIA == <<65, 75, 73, 65>>

\* "password", the keyword of the second pattern (matched under (?i)).
KEYWORD == <<112, 97, 115, 115, 119, 111, 114, 100>>

\* [:=]
SEPARATORS == {58, 61}

\* The argument of strip("'\""): the two quote characters.
QUOTES == {39, 34}

\* 'Potential secrets found:' and the blank print() puts between its arguments.
PREFIX == <<80, 111, 116, 101, 110, 116, 105, 97, 108, 32, 115, 101, 99, 114,
            101, 116, 115, 32, 102, 111, 117, 110, 100, 58, 32>>

\* ', ' of ', '.join(findings)
COMMA_SPACE == <<44, 32>>

\* The newline print() ends its output with.
NEWLINE == 10

PLACEHOLDER_VALUES ==
    { <<99, 104, 97, 110, 103, 101, 109, 101>>,                      \* changeme
      <<60, 112, 97, 115, 115, 119, 111, 114, 100, 62>>,             \* <password>
      <<101, 120, 97, 109, 112, 108, 101>>,                          \* example
      <<121, 111, 117, 114, 45, 112, 97, 115, 115, 119, 111, 114, 100>>, \* your-password
      <<106, 111, 98, 98, 111, 116>>,                                \* jobbot
      <<109, 105, 110, 105, 111, 49, 50, 51>> }                      \* minio123

\* [0-9A-Z]
IsUpperAlnum(c) == c \in 48..57 \/ c \in 65..90

\* \s of a str pattern, on ASCII: [ \t\n\r\f\v] and the separators 0x1c..0x1f.
IsSpace(c) == c \in 9..13 \/ c \in 28..32

\* str.lower() on ASCII.
Lower(c) == IF c \in 65..90 THEN c + 32 ELSE c

LowerSeq(s) == [i \in 1..Len(s) |-> Lower(s[i])]

\* A patterns list with the password pattern first.
ReversedPatterns == <<"password", "aws">>

\* The patterns list, in scan order.
patterns == <<"aws", "password">>

NoMatch == [kind |-> "none", start |-> 0, end |-> 0, g1 |-> 0]

\* pattern.match at index i for r'AKIA[0-9A-Z]{16}': the match covers
\* data[i .. i+3+KeyTailLen].
AwsMatchAt(d, i) ==
    IF /\ i + 3 + KeyTailLen <= Len(d)
       /\ d[i] = AKIA[1]
       /\ SubSeq(d, i, i + 3) = AKIA
       /\ \A k \in 1..KeyTailLen : IsUpperAlnum(d[i + 3 + k])
    THEN [kind |-> "aws", start |-> i, end |-> i + 3 + KeyTailLen, g1 |-> 0]
    ELSE NoMatch

\* The first index >= i that holds no whitespace (Len(d)+1 at the end): \s*.
SkipSpace(d, i) == Min({j \in i..(Len(d) + 1) : j > Len(d) \/ ~IsSpace(d[j])})

\* The last index of the run of non-whitespace that starts at i: \S+.
RunEnd(d, i) == Min({j \in i..Len(d) : j = Len(d) \/ IsSpace(d[j + 1])})

\* pattern.match at index i for r'(?i)password\s*[:=]\s*(\S+)'.  \s, [:=] and
\* \S are pairwise disjoint or nested so that the greedy match is the only
\* match: backtracking never finds another one.
PasswordMatchAt(d, i) ==
    IF i + Len(KEYWORD) - 1 > Len(d) THEN NoMatch
    ELSE IF Lower(d[i]) # KEYWORD[1] THEN NoMatch
    ELSE IF LowerSeq(SubSeq(d, i, i + Len(KEYWORD) - 1)) # KEYWORD THEN NoMatch
    ELSE LET s == SkipSpace(d, i + Len(KEYWORD))
         IN IF s > Len(d) \/ d[s] \notin SEPARATORS THEN NoMatch
            ELSE LET v == SkipSpace(d, s + 1)
                 IN IF v > Len(d) THEN NoMatch
                    ELSE [kind |-> "password", start |-> i,
                          end |-> RunEnd(d, v), g1 |-> v]

MatchAt(kind, d, i) ==
    IF kind = "aws" THEN AwsMatchAt(d, i) ELSE PasswordMatchAt(d, i)

\* One step of pattern.finditer(data): the leftmost match at or after from.
Search(kind, d, from) ==
    LET S == {i \in from..Len(d) : MatchAt(kind, d, i) # NoMatch}
    IN IF S = {} THEN NoMatch ELSE MatchAt(kind, d, Min(S))

\* Where a scan that stops after the first occurrence would resume: nowhere.
FirstOccurrenceOnly(m, d) == Len(d) + 1

\* finditer resumes after the end of the previous (non-empty) match.
NextPos(m, d) == m.end + 1

\* match.group(0) and match.group(1)
Group0(d, m) == SubSeq(d, m.start, m.end)
Group1(d, m) == SubSeq(d, m.g1, m.end)

\* A strip that removes one leading and one trailing character only.
StripOne(s, chars) ==
    LET a == IF Len(s) > 0 /\ s[1] \in chars THEN Tail(s) ELSE s
    IN IF Len(a) > 0 /\ a[Len(a)] \in chars THEN SubSeq(a, 1, Len(a) - 1) ELSE a

\* str.strip(chars): every leading and every trailing character of chars goes.
Strip(s, chars) ==
    LET keep == {i \in 1..Len(s) : s[i] \notin chars}
    IN IF keep = {} THEN <<>> ELSE SubSeq(s, Min(keep), Max(keep))

\* value = match.group(1).lower().strip("'\"")
value(d, m) == Strip(LowerSeq(Group1(d, m)), QUOTES)

\* A report of the captured value instead of the matched text.
CapturedValueOnly(d, m) == IF m.kind = "password" THEN Group1(d, m) ELSE Group0(d, m)

\* What findings.append receives: match.group(0), in both branches.
Finding(d, m) == Group0(d, m)

\* A truth test that needs two findings.
MoreThanOneFinding(f) == Len(f) > 1

\* if findings:
HasFindings(f) == Len(f) > 0

RECURSIVE Join(_, _)
\* sep.join(parts)
Join(sep, parts) ==
    IF parts = <<>> THEN <<>>
    ELSE IF Len(parts) = 1 THEN parts[1]
    ELSE parts[1] \o sep \o Join(sep, Tail(parts))

\* print('Potential secrets found:', ', '.join(findings))
Printed(f) == PREFIX \o Join(COMMA_SPACE, f) \o <<NEWLINE>>

\* The fragments inputs are built from.
Items ==
    << <<65, 75, 73, 65>>,                                           \* AKIA
       <<65, 66, 67, 68, 69, 70, 71, 72, 73, 74, 48, 49, 50, 51, 52, 53>>,
                                                                     \* ABCDEFGHIJ012345
       <<65, 75, 73, 65, 90, 57, 89, 56, 88, 55, 87, 54, 86, 53, 85, 52,
         84, 51, 83, 50>>,                                           \* AKIAZ9Y8X7W6V5U4T3S2
       <<112, 97, 115, 115, 119, 111, 114, 100, 58>>,                \* password:
       <<80, 97, 115, 115, 87, 111, 114, 100, 10, 61, 10>>,          \* PassWord\n=\n
       <<32>>,                                                       \* blank
       <<10>>,                                                       \* newline
       <<99, 104, 97, 110, 103, 101, 109, 101>>,                     \* changeme
       <<39, 67, 104, 97, 110, 103, 101, 77, 101, 39>>,              \* 'ChangeMe'
       <<34, 34, 106, 111, 98, 98, 111, 116, 34, 39>>,               \* ""jobbot"'
       <<115, 51, 99, 114, 51, 116, 33>>,                            \* s3cr3t!
       <<60, 112, 97, 115, 115, 119, 111, 114, 100, 62>>,            \* <password>
       <<112, 97, 115, 115, 119, 111, 114, 100, 58, 32, 115, 51, 99, 114,
         51, 116, 33, 10>> >>                                        \* password: s3cr3t!\n

RECURSIVE Concat(_)
Concat(ss) == IF ss = <<>> THEN <<>> ELSE ss[1] \o Concat(Tail(ss))

\* The blobs stdin may hold.
Inputs ==
    { Concat([k \in DOMAIN choice |-> Items[choice[k]]]) :
        choice \in UNION {[1..n -> 1..Len(Items)] : n \in 0..MaxItems} }

\* sys.stdin.read(): the whole blob is read before any matching begins.
ReadStdin ==
    /\ pc = "start"
    /\ data' \in Inputs
    /\ pc' = "scan"
    /\ UNCHANGED <<p, pos, match, findings, origins, stdout, exit_status>>
    /\ UNCHANGED dev_vars

\* for match in pattern.finditer(data): the iterator yields the next match.
NextMatch ==
    /\ pc = "scan"
    /\ p <= Len(patterns)
    /\ match' = Search(patterns[p], data, pos)
    /\ match' # NoMatch
    /\ pc' = "body"
    /\ UNCHANGED <<data, p, pos, findings, origins, stdout, exit_status>>
    /\ UNCHANGED dev_vars

\* The iterator is exhausted: for pattern in patterns takes the next pattern.
PatternExhausted ==
    /\ pc = "scan"
    /\ p <= Len(patterns)
    /\ Search(patterns[p], data, pos) = NoMatch
    /\ p' = p + 1
    /\ pos' = 1
    /\ UNCHANGED <<pc, data, match, findings, origins, stdout, exit_status>>
    /\ UNCHANGED dev_vars

\* The password branch, value in PLACEHOLDER_VALUES: continue.
SkipPlaceholder ==
    /\ pc = "body"
    /\ patterns[p] = "password"
    /\ value(data, match) \in PLACEHOLDER_VALUES
    /\ pos' = NextPos(match, data)
    /\ pc' = "scan"
    /\ UNCHANGED <<data, p, match, findings, origins, stdout, exit_status>>
    /\ UNCHANGED dev_vars

\* The password branch, any other value: findings.append(match.group(0)).
AppendPassword ==
    /\ pc = "body"
    /\ patterns[p] = "password"
    /\ value(data, match) \notin PLACEHOLDER_VALUES
    /\ findings' = Append(findings, Finding(data, match))
    /\ origins' = Append(origins, match)
    /\ pos' = NextPos(match, data)
    /\ pc' = "scan"
    /\ UNCHANGED <<data, p, match, stdout, exit_status>>
    /\ UNCHANGED dev_vars

\* The else branch (the AWS pattern): findings.append(match.group(0)).
AppendAwsKey ==
    /\ pc = "body"
    /\ patterns[p] # "password"
    /\ findings' = Append(findings, Finding(data, match))
    /\ origins' = Append(origins, match)
    /\ pos' = NextPos(match, data)
    /\ pc' = "scan"
    /\ UNCHANGED <<data, p, match, stdout, exit_status>>
    /\ UNCHANGED dev_vars

\* if findings: print(...); sys.exit(1)
ReportAndExit ==
    /\ pc = "scan"
    /\ p > Len(patterns)
    /\ HasFindings(findings)
    /\ stdout' = Printed(findings)
    /\ exit_status' = 1
    /\ pc' = "done"
    /\ UNCHANGED <<data, p, pos, match, findings, origins>>
    /\ UNCHANGED dev_vars

\* No findings: main returns and the interpreter exits with status 0.
ExitClean ==
    /\ pc = "scan"
    /\ p > Len(patterns)
    /\ ~HasFindings(findings)
    /\ exit_status' = 0
    /\ pc' = "done"
    /\ UNCHANGED <<data, p, pos, match, findings, origins, stdout>>
    /\ UNCHANGED dev_vars

(***************************************************************************)
(* scripts/flash_and_report.py                                             *)
(***************************************************************************)

\* Bound: the devices iterable holds at most MaxDevices devices.
MaxDevices == 2

\* Python values.
None == [t |-> "NoneType"]
Str(s) == [t |-> "str", chars |-> s]
Bool(b) == [t |-> "bool", truth |-> b]
Num(n) == [t |-> "int", number |-> n]
List(l) == [t |-> "list", items |-> l]

\* An object with no attribute / a dict with no key.
Empty == [k \in {} |-> None]

\* dict.update, and the union of the attributes of two partial objects.
Update(d, u) ==
    [k \in DOMAIN d \cup DOMAIN u |-> IF k \in DOMAIN u THEN u[k] ELSE d[k]]

\* getattr(obj, name, default)
GetAttr(obj, name, default) == IF name \in DOMAIN obj THEN obj[name] ELSE default

\* bool(v) is False
Falsy(v) ==
    \/ v.t = "NoneType"
    \/ v.t = "bool" /\ v.truth = FALSE
    \/ v.t = "int" /\ v.number = 0
    \/ v.t = "str" /\ v.chars = ""
    \/ v.t = "list" /\ v.items = <<>>

\* The mountpoints attribute handed on without the guard.
MountpointsUnguarded(device) == GetAttr(device, "mountpoints", None)

normalize_mountpoints(device) ==
    LET mountpoints == GetAttr(device, "mountpoints", None)
    IN IF Falsy(mountpoints) THEN List(<<>>) ELSE List(mountpoints.items)

\* A starting mapping without the explicit system_id.
InfoPathOnly(target) == [k \in {"path"} |-> Str(target)]

\* info: dict[str, Any] = {"path": path, "system_id": None}
InitialInfo(target) ==
    [k \in {"path", "system_id"} |-> IF k = "path" THEN Str(target) ELSE None]

\* A comparison whose default for an absent path is the target itself.
PathDiffersDefaultTarget(device, target) ==
    GetAttr(device, "path", Str(target)) # Str(target)

\* getattr(device, "path", None) != path
PathDiffers(device, target) == GetAttr(device, "path", None) # Str(target)

\* The dict literal handed to info.update.
Described(device) ==
    [k \in {"description", "is_removable", "human_size", "bus", "mountpoints",
            "system_id"} |->
        CASE k = "description" -> GetAttr(device, "description", None)
          [] k = "is_removable" -> GetAttr(device, "is_removable", Bool(FALSE))
          [] k = "human_size" -> GetAttr(device, "human_size", None)
          [] k = "bus" -> GetAttr(device, "bus", None)
          [] k = "mountpoints" -> normalize_mountpoints(device)
          [] k = "system_id" -> GetAttr(device, "system_id", None)]

\* A loop that goes on to the next device after a match.
ContinueAfterMatch(i, n) == i + 1

\* break: the loop is left, no later device is looked at.
AfterMatch(i, n) == n + 1

\* The paths devices carry and callers ask for.
Paths == {"/dev/sda", "/dev/sdb1"}

\* The devices the media-discovery facility may return: the path may be
\* missing, and the other attributes come in six shapes.
DevicePool ==
    LET PathAttrs == {Empty} \cup {[k \in {"path"} |-> Str(x)] : x \in Paths}
        Shapes ==
          { Empty,
            [system_id |-> Num(7)],
            [description |-> Str("SD Card"), is_removable |-> Bool(TRUE),
             human_size |-> Str("32G"), bus |-> Str("usb"),
             mountpoints |-> List(<<"/media/a", "/media/b">>),
             system_id |-> Str("PHYSICALDRIVE2")],
            [description |-> None, is_removable |-> Bool(FALSE),
             bus |-> Str("sata"), mountpoints |-> None, system_id |-> None],
            [description |-> Str("Disk"), human_size |-> Str("1T"),
             mountpoints |-> List(<<>>)],
            [description |-> Str("SD Card"), is_removable |-> Bool(TRUE),
             mountpoints |-> List(<<"/media/a">>), system_id |-> Num(7)] }
    IN {Update(a, r) : a \in PathAttrs, r \in Shapes}

\* _describe_device(devices, path) is called: info is initialised.
DescribeCall ==
    /\ pc = "start"
    /\ devices' \in UNION {[1..n -> DevicePool] : n \in 0..MaxDevices}
    /\ path' \in Paths
    /\ info' = InitialInfo(path')
    /\ idx' = 1
    /\ pc' = "loop"
    /\ UNCHANGED scan_vars

\* The device's path is not the target: continue.
LoopContinue ==
    /\ pc = "loop"
    /\ idx <= Len(devices)
    /\ PathDiffers(devices[idx], path)
    /\ idx' = idx + 1
    /\ UNCHANGED <<pc, devices, path, info>>
    /\ UNCHANGED scan_vars

\* The device's path is the target: info.update({...}); break.
LoopUpdate ==
    /\ pc = "loop"
    /\ idx <= Len(devices)
    /\ ~PathDiffers(devices[idx], path)
    /\ info' = Update(info, Described(devices[idx]))
    /\ idx' = AfterMatch(idx, Len(devices))
    /\ UNCHANGED <<pc, devices, path>>
    /\ UNCHANGED scan_vars

\* return info
Return ==
    /\ pc = "loop"
    /\ idx > Len(devices)
    /\ pc' = "returned"
    /\ UNCHANGED dev_vars
    /\ UNCHANGED scan_vars

(***************************************************************************)
(* The two programs                                                        *)
(***************************************************************************)

Init ==
    /\ pc = "start"
    /\ data = <<>>
    /\ p = 1
    /\ pos = 1
    /\ match = NoMatch
    /\ findings = <<>>
    /\ origins = <<>>
    /\ stdout = <<>>
    /\ exit_status = -1
    /\ devices = <<>>
    /\ path = ""
    /\ idx = 1
    /\ info = Empty

Next ==
    \/ ReadStdin
    \/ NextMatch
    \/ PatternExhausted
    \/ SkipPlaceholder
    \/ AppendPassword
    \/ AppendAwsKey
    \/ ReportAndExit
    \/ ExitClean
    \/ DescribeCall
    \/ LoopContinue
    \/ LoopUpdate
    \/ Return

Spec == Init /\ [][Next]_vars

(***************************************************************************)
(* Vocabulary of the properties                                            *)
(***************************************************************************)

\* needle is a contiguous part of hay.
Contains(hay, needle) ==
    \E i \in 1..(Len(hay) - Len(needle) + 1) :
        SubSeq(hay, i, i + Len(needle) - 1) = needle

\* The blob holds AKIA followed by KeyTailLen characters of [0-9A-Z] at i.
KeyOccursAt(i) ==
    /\ i + Len(AKIA) + KeyTailLen - 1 <= Len(data)
    /\ \A k \in 1..Len(AKIA) : data[i + k - 1] = AKIA[k]
    /\ \A k \in 1..KeyTailLen : IsUpperAlnum(data[i + Len(AKIA) + k - 1])

KeyText(i) == SubSeq(data, i, i + Len(AKIA) + KeyTailLen - 1)

\* The blob holds a password assignment at i.
PasswordOccursAt(i) == PasswordMatchAt(data, i) # NoMatch

RECURSIVE Unquoted(_)
\* s without any of its leading and trailing quote characters.
Unquoted(s) ==
    IF s # <<>> /\ s[1] \in QUOTES THEN Unquoted(Tail(s))
    ELSE IF s # <<>> /\ s[Len(s)] \in QUOTES THEN Unquoted(SubSeq(s, 1, Len(s) - 1))
    ELSE s

\* The captured value of m, lower-cased, all surrounding quotes removed.
Normalized(m) == Unquoted(LowerSeq(Group1(data, m)))

\* The captured value of m, lower-cased, one leading and one trailing quote
\* removed.
NormalizedOnce(m) == StripOne(LowerSeq(Group1(data, m)), QUOTES)

\* The loop body made match m a finding (matches are visited left to right,
\* so the latest finding is the only one m can be).
Kept(m) == origins # <<>> /\ origins[Len(origins)] = m

\* The loop body has just handled a password match.
PasswordHandled == pc = "scan" /\ match.kind = "password"

Rank(kind) == IF kind = "aws" THEN 1 ELSE 2

\* The indices of the devices whose path attribute is the target.
MatchIdx ==
    {k \in 1..Len(devices) :
        "path" \in DOMAIN devices[k] /\ devices[k]["path"] = Str(path)}

FirstMatch == devices[Min(MatchIdx)]

NullableFields == {"description", "human_size", "bus", "system_id"}

(***************************************************************************)
(* Properties of the secret scanner                                        *)
(***************************************************************************)

\* C1: the scanner ends with status 1 and the 'Potential secrets found:'
\* message exactly when the list of findings is not empty; with no finding,
\* in particular when nothing in the input matches either pattern, it prints
\* nothing and ends with status 0.
C1_ExitOneIffFindings ==
    pc = "done" =>
        /\ exit_status \in {0, 1}
        /\ exit_status = 1 <=> findings # <<>>
        /\ exit_status = 1 <=> stdout # <<>>
        /\ stdout # <<>> => /\ Len(stdout) > Len(PREFIX)
                            /\ SubSeq(stdout, 1, Len(PREFIX)) = PREFIX
        /\ (\A i \in 1..Len(data) : ~KeyOccursAt(i) /\ ~PasswordOccursAt(i))
              => exit_status = 0 /\ stdout = <<>>

C1_Witness == pc = "done" /\ exit_status = 1 /\ findings # <<>> /\ stdout # <<>>

\* C2 as stated: whenever the input holds AKIA followed by 16 upper-case
\* alphanumerics, the scanner exits 1 and the printed line contains that
\* 20-character text.
C2_EveryKeyPrinted ==
    pc = "done" =>
        \A i \in 1..Len(data) :
            KeyOccursAt(i) => exit_status = 1 /\ Contains(stdout, KeyText(i))

\* C2, amended: whenever the input holds a key, the scanner exits 1, and
\* every key that does not start inside an earlier key of the input is a
\* finding of its own and is printed in full, whatever password assignments
\* the input holds.
C2_KeysReported ==
    pc = "done" =>
        \A i \in 1..Len(data) :
            KeyOccursAt(i) =>
                /\ exit_status = 1
                /\ (\A j \in 1..(i - 1) :
                        KeyOccursAt(j) => j + Len(AKIA) + KeyTailLen <= i)
                   => /\ \E k \in 1..Len(origins) :
                            /\ origins[k].kind = "aws"
                            /\ origins[k].start = i
                            /\ findings[k] = KeyText(i)
                      /\ Contains(stdout, KeyText(i))

C2_Witness ==
    /\ pc = "done"
    /\ exit_status = 1
    /\ \E i \in 1..Len(data) : KeyOccursAt(i) /\ Contains(stdout, KeyText(i))
    /\ \E j \in 1..Len(data) :
          /\ PasswordOccursAt(j)
          /\ Normalized(PasswordMatchAt(data, j)) \in PLACEHOLDER_VALUES

\* C3 as stated: a password assignment is discarded exactly when its value,
\* lower-cased and with a single leading and a single trailing quote removed,
\* is a placeholder.
C3_DiscardedIffSingleQuoteStripped ==
    PasswordHandled =>
        (~Kept(match) <=> NormalizedOnce(match) \in PLACEHOLDER_VALUES)

\* C3, amended: a password assignment is discarded exactly when its value,
\* lower-cased and with all its leading and trailing quote characters
\* removed, is a placeholder; an input whose only matches are such
\* assignments ends with status 0 and no output.
C3_DiscardedIffPlaceholder ==
    /\ PasswordHandled =>
          (~Kept(match) <=> Normalized(match) \in PLACEHOLDER_VALUES)
    /\ ( /\ pc = "done"
         /\ \A i \in 1..Len(data) :
               /\ ~KeyOccursAt(i)
               /\ PasswordOccursAt(i) =>
                     Normalized(PasswordMatchAt(data, i)) \in PLACEHOLDER_VALUES )
       => exit_status = 0 /\ stdout = <<>>

C3_Witness ==
    /\ PasswordHandled
    /\ ~Kept(match)
    /\ Normalized(match) # Group1(data, match)
    /\ \E i \in match.g1..match.end : data[i] \in QUOTES

\* C4: a password assignment whose normalized value is no placeholder is a
\* finding, the finding is the whole matched text (keyword, separator and
\* value) and not the captured value alone, and the scanner exits 1.
C4_FullMatchReported ==
    /\ Len(findings) = Len(origins)
    /\ PasswordHandled /\ Normalized(match) \notin PLACEHOLDER_VALUES
          => Kept(match)
    /\ \A k \in 1..Len(origins) :
          origins[k].kind = "password" =>
              /\ findings[k] = SubSeq(data, origins[k].start, origins[k].end)
              /\ LowerSeq(SubSeq(findings[k], 1, Len(KEYWORD))) = KEYWORD
              /\ findings[k] # Group1(data, origins[k])
              /\ pc = "done" => exit_status = 1 /\ Contains(stdout, findings[k])

C4_Witness ==
    /\ pc = "done"
    /\ exit_status = 1
    /\ \E k \in 1..Len(origins) :
          /\ origins[k].kind = "password"
          /\ Contains(stdout, SubSeq(data, origins[k].start, origins[k].end))

\* C5: the findings are in pattern order, then in the order of occurrence:
\* the AWS keys first, as they occur in the input, then the password
\* findings, as they occur in the input, and the output lists them so.
C5_PatternThenOccurrenceOrder ==
    /\ Len(findings) = Len(origins)
    /\ \A k \in 1..Len(origins) : findings[k] = Group0(data, origins[k])
    /\ \A j, k \in 1..Len(origins) :
          j < k =>
              \/ Rank(origins[j].kind) < Rank(origins[k].kind)
              \/ /\ origins[j].kind = origins[k].kind
                 /\ origins[j].start < origins[k].start
    /\ pc = "done" /\ exit_status = 1 =>
          stdout = PREFIX \o Join(COMMA_SPACE, findings) \o <<NEWLINE>>

C5_Witness ==
    /\ pc = "done"
    /\ \E j, k \in 1..Len(origins) :
          /\ j < k
          /\ origins[j].kind = "aws"
          /\ origins[k].kind = "password"
          /\ origins[k].start < origins[j].start

\* C6: whenever the scanner exits 1, its output is exactly one line, the
\* prefix followed by the findings separated by ', ', also when whitespace
\* such as a newline sits between keyword, separator and value.
C6_ExactlyOneLine ==
    pc = "done" /\ exit_status = 1 =>
        /\ stdout = PREFIX \o Join(COMMA_SPACE, findings) \o <<NEWLINE>>
        /\ Cardinality({i \in 1..Len(stdout) : stdout[i] = NEWLINE}) = 1
        /\ stdout[Len(stdout)] = NEWLINE

(***************************************************************************)
(* Properties of the device helper                                         *)
(***************************************************************************)

\* C7: the returned system_id is the system_id attribute of the first device
\* whose path is the target, or null when that device has none or no device
\* matches; never that of another device or of a later match.
C7_SystemIdVerbatim ==
    pc = "returned" =>
        /\ "system_id" \in DOMAIN info
        /\ info["system_id"] =
              IF MatchIdx = {} THEN None
              ELSE IF "system_id" \in DOMAIN FirstMatch
                   THEN FirstMatch["system_id"] ELSE None

C7_Witness ==
    /\ pc = "returned"
    /\ Cardinality(MatchIdx) > 1
    /\ \E k \in MatchIdx :
          /\ "system_id" \in DOMAIN devices[k]
          /\ devices[k]["system_id"] # info["system_id"]
    /\ info["system_id"] # None

\* C8: every returned field comes from the first device whose path is the
\* target; later devices and devices with another or no path have no
\* influence.
C8_FirstMatchDescribed ==
    pc = "returned" /\ MatchIdx # {} =>
        /\ DOMAIN info = {"path", "description", "is_removable", "human_size",
                          "bus", "mountpoints", "system_id"}
        /\ info["path"] = Str(path)
        /\ \A a \in NullableFields :
              a \in DOMAIN FirstMatch => info[a] = FirstMatch[a]
        /\ "is_removable" \in DOMAIN FirstMatch =>
              info["is_removable"] = FirstMatch["is_removable"]
        /\ "mountpoints" \in DOMAIN FirstMatch
              /\ FirstMatch["mountpoints"].t = "list" =>
              info["mountpoints"] = FirstMatch["mountpoints"]
        /\ \A a \in DOMAIN info \ {"path", "mountpoints", "is_removable"} :
              a \notin DOMAIN FirstMatch => info[a] = None

C8_Witness ==
    /\ pc = "returned"
    /\ MatchIdx # {}
    /\ Min(MatchIdx) > 1
    /\ "path" \notin DOMAIN devices[1]
    /\ "description" \in DOMAIN devices[1]
    /\ devices[1]["description"] # info["description"]
    /\ info["description"] # None

\* C9 as stated: an attribute the matching device lacks is returned as an
\* empty list (mountpoints, also when it is None or empty) or as null (all
\* others, is_removable among them).
C9_AbsentIsNull ==
    pc = "returned" /\ MatchIdx # {} =>
        /\ \A a \in NullableFields \cup {"is_removable"} :
              a \notin DOMAIN FirstMatch => info[a] = None
        /\ ("mountpoints" \notin DOMAIN FirstMatch
              \/ FirstMatch["mountpoints"] \in {None, List(<<>>)})
           => info["mountpoints"] = List(<<>>)

\* C9, amended: an attribute the matching device lacks is returned as an
\* empty list (mountpoints, also when it is None or empty), as False
\* (is_removable) or as null (description, human_size, bus, system_id).
C9_AbsentIsDefault ==
    pc = "returned" /\ MatchIdx # {} =>
        /\ \A a \in NullableFields :
              a \notin DOMAIN FirstMatch => info[a] = None
        /\ "is_removable" \notin DOMAIN FirstMatch =>
              info["is_removable"] = Bool(FALSE)
        /\ ("mountpoints" \notin DOMAIN FirstMatch
              \/ FirstMatch["mountpoints"] \in {None, List(<<>>)})
           => info["mountpoints"] = List(<<>>)

C9_Witness ==
    /\ pc = "returned"
    /\ MatchIdx # {}
    /\ DOMAIN FirstMatch = {"path"}
    /\ info["mountpoints"] = List(<<>>)
    /\ info["is_removable"] = Bool(FALSE)

\* C10: when no device has the target path (the collection may be empty),
\* the result holds the path key, set to the requested path, and a null
\* system_id, and no other key.
C10_MinimalMapping ==
    pc = "returned" /\ MatchIdx = {} =>
        /\ DOMAIN info = {"path", "system_id"}
        /\ info["path"] = Str(path)
        /\ info["system_id"] = None

C10_Witness ==
    /\ pc = "returned"
    /\ MatchIdx = {}
    /\ Len(devices) > 1
    /\ \E k \in 1..Len(devices) : "path" \notin DOMAIN devices[k]
    /\ \E k \in 1..Len(devices) : "path" \in DOMAIN devices[k]
    /\ DOMAIN info = {"path", "system_id"}

====
